---- MODULE Spec2Model ----
(***************************************************************************)
(* Request lifecycle of the imgproxy HTTP handler (server.go):             *)
(* httpHandler.ServeHTTP run by one goroutine per request, the semaphore   *)
(* channel h.sem, the lazily built authHeaderMust buffer, the per-request  *)
(* deadline and the deferred functions of ServeHTTP; and, on its own, the  *)
(* gzip branch of respondWithImage with the shared responseBufPool.        *)
(*                                                                         *)
(* The New Relic / Prometheus hooks (server.go 249-258, 274-279, 299-304)  *)
(* touch no state of the handler and are left out.                         *)
(***************************************************************************)
EXTENDS Integers, Sequences, FiniteSets, TLC

\* ---------------------------------------------------------------- bounds
NumRequests == 2
Concurrency == 1

Requests == 1..NumRequests

\* Calls of respondWithImage that are in their gzip branch at the same
\* time (requests that hold tokens together), and the buffers that
\* responseBufPool.New hands out to them.
NumEncoders == 3

Encoders == 1..NumEncoders
Buffers == 1..NumEncoders

\* ------------------------------------------------------------- constants
healthPath == "/health"
imgproxyIsRunningMsg == "imgproxy is running"

MethodGet == "GET"
MethodOptions == "OPTIONS"
MethodPost == "POST"
Methods == {MethodGet, MethodOptions, MethodPost}

\* Request targets: the health path, or a transformation path.
URIs == {healthPath, "/rs:fit/plain/img"}

\* Authorization header of a request, by how it compares with
\* "Bearer <secret>": equal, different bytes of the same length, or a
\* different length (which includes an absent header).
AuthHeaders == {"equal", "same_len", "other_len"}

\* ---------------------------------------------------------------- errors
\* Values that can be passed to panic(): *imgproxyError, another error,
\* or a value that is not an error.
newError(status, msg, pub) ==
    [kind |-> "imgproxyError", StatusCode |-> status, Message |-> msg, PublicMessage |-> pub]

newUnexpectedError(err) ==
    newError(500, "Unexpected error: " \o err.Message, "Internal error")

plainError(msg) ==
    [kind |-> "error", StatusCode |-> 0, Message |-> msg, PublicMessage |-> ""]

nonErrorValue ==
    [kind |-> "nonerror", StatusCode |-> 0, Message |-> "fault", PublicMessage |-> ""]

NoPanic ==
    [kind |-> "none", StatusCode |-> 0, Message |-> "", PublicMessage |-> ""]

errInvalidMethod == newError(422, "Invalid request method", "Method doesn't allowed")
errInvalidSecret == newError(403, "Invalid secret", "Forbidden")
errTimeout == newError(503, "Timeout after deadline", "Timeout")
errStage == newError(404, "stage failed: http://src/img", "Invalid source image")
errRuntime == plainError("runtime error: invalid memory address or nil pointer dereference")
errCollaborator == plainError("collaborator failure: http://src/img")

\* What an external stage (parsePath, downloadImage, processImage) can do:
\* succeed, return a typed or an untyped error, or panic with a value that
\* is not an error.
StageFailures == {errStage, errCollaborator}

VARIABLES
    conf,            \* [Secret, ETagEnabled]: configuration, fixed at startup
    sem,             \* number of tokens in the channel h.sem
    authHeaderMust,  \* the global slice: "empty", "torn" (len set, ptr nil), "ready"
    pc,              \* position of each request's goroutine in ServeHTTP
    method,          \* r.Method
    uri,             \* r.URL.RequestURI()
    authHdr,         \* Authorization header, once checkSecret has read it
    defers,          \* stack of deferred functions of ServeHTTP (last = top)
    panicValue,      \* value passed to panic() (kept after recover()), or NoPanic
    resp,            \* sequence of rw.WriteHeader calls: [status, body, held]
    logs,            \* sequence of statuses passed to logResponse
    lockCalls,       \* completed h.lock() calls
    unlockCalls,     \* completed h.unlock() calls
    cancelCalls,     \* completed downloadcancel() calls
    timer,           \* deadline context: "none", "running", "expired", "cancelled"
    ifNoneMatch,     \* If-None-Match against the computed ETag, once line 289 read it
    marks            \* record of the request: "auth" once checkSecret returned true,
                     \* "downloadReturned" once downloadImage returned,
                     \* "downloadAborted" once the deadline ended its download

VARIABLES
    pool,            \* buffers in responseBufPool
    content,         \* per buffer: whose bytes are in it (unread)
    buf,             \* per call: the buffer it holds (a set of at most one)
    encPc,           \* position of each call in respondWithImage
    sent,            \* per call: whose bytes went into the body written
    puts             \* per call: completed responseBufPool.Put calls

vars == <<conf, sem, authHeaderMust, pc, method, uri, authHdr, defers, panicValue,
          resp, logs, lockCalls, unlockCalls, cancelCalls, timer, ifNoneMatch, marks,
          pool, content, buf, encPc, sent, puts>>

encoding == <<pool, content, buf, encPc, sent, puts>>

shared == <<conf, sem, authHeaderMust, encoding>>

requestLine == <<method, uri, ifNoneMatch>>

\* A request holds a token between its lock() and its unlock().
Holding(r) == lockCalls[r] > unlockCalls[r]

\* -------------------------------------------------------------- helpers
\* rw.WriteHeader(status) followed by rw.Write(body) by request r.
writeResponse(r, status, body) ==
    Append(resp[r], [status |-> status, body |-> body, held |-> Holding(r)])

\* logResponse(status, msg)
logResponse(r, status) == Append(logs[r], status)

\* subtle.ConstantTimeCompare(header, "Bearer <secret>") == 1
ConstantTimeCompare(hdr) == hdr = "equal"

Init ==
    /\ conf \in [Secret : BOOLEAN, ETagEnabled : BOOLEAN]
    /\ sem = 0
    /\ authHeaderMust = "empty"
    /\ pc = [r \in Requests |-> "idle"]
    /\ method = [r \in Requests |-> "none"]
    /\ uri = [r \in Requests |-> "none"]
    /\ authHdr = [r \in Requests |-> "unread"]
    /\ defers = [r \in Requests |-> <<>>]
    /\ panicValue = [r \in Requests |-> NoPanic]
    /\ resp = [r \in Requests |-> <<>>]
    /\ logs = [r \in Requests |-> <<>>]
    /\ lockCalls = [r \in Requests |-> 0]
    /\ unlockCalls = [r \in Requests |-> 0]
    /\ cancelCalls = [r \in Requests |-> 0]
    /\ timer = [r \in Requests |-> "none"]
    /\ ifNoneMatch = [r \in Requests |-> "unread"]
    /\ marks = [r \in Requests |-> {}]
    /\ pool = {}
    /\ content = [b \in Buffers |-> {}]
    /\ buf = [e \in Encoders |-> {}]
    /\ encPc = [e \in Encoders |-> "start"]
    /\ sent = [e \in Encoders |-> {}]
    /\ puts = [e \in Encoders |-> 0]

\* Mutation of Panic: the value is recorded but control stays in the body.
PanicWithoutUnwinding(r, v) ==
    /\ pc' = pc
    /\ panicValue' = [panicValue EXCEPT ![r] = v]

\* panic(v) in request r: control leaves the body, the deferred functions run.
Panic(r, v) ==
    /\ pc' = [pc EXCEPT ![r] = "exit"]
    /\ panicValue' = [panicValue EXCEPT ![r] = v]

\* return from ServeHTTP: the deferred functions run.
Return(r) ==
    /\ pc' = [pc EXCEPT ![r] = "exit"]
    /\ UNCHANGED panicValue

Goto(r, l) ==
    /\ pc' = [pc EXCEPT ![r] = l]
    /\ UNCHANGED panicValue

\* Mutation of isMethodGet: every method other than OPTIONS is let through.
isMethodGetOrAny(m) == m # MethodOptions

\* server.go 233: r.Method != http.MethodGet
isMethodGet(m) == m = MethodGet

\* server.go 205-235: entry (the request line is read and logged), the
\* deferred recover, OPTIONS and the method check.
ServeHTTP(r) ==
    /\ pc[r] = "idle"
    /\ \E m \in Methods, u \in URIs :
        /\ method' = [method EXCEPT ![r] = m]
        /\ uri' = [uri EXCEPT ![r] = u]
        /\ defers' = [defers EXCEPT ![r] = <<"recover">>]
        /\ IF m = MethodOptions
             THEN /\ logs' = [logs EXCEPT ![r] = logResponse(r, 200)]
                  /\ resp' = [resp EXCEPT ![r] = writeResponse(r, 200, "")]
                  /\ Return(r)
             ELSE /\ UNCHANGED <<logs, resp>>
                  /\ IF ~isMethodGet(m)
                       THEN Panic(r, errInvalidMethod)
                       ELSE Goto(r, "checkSecret")
    /\ UNCHANGED <<shared, authHdr, lockCalls, unlockCalls, cancelCalls, timer, ifNoneMatch, marks>>

\* ----------------------------------------------------------- auth gate
\* server.go 186-195 with 178-179: checkSecret reads the Authorization
\* header and calls prepareAuthHeaderMust, which reads the global slice
\* without synchronisation.  A slice is three words and line 180 stores
\* its length before its pointer, so a concurrent reader can see the
\* length set and the pointer still nil ("torn"); comparing a header of
\* that length against it dereferences nil, a runtime error.
\* server.go 237-239: checkSecret returned true, the request goes on; or
\* it returned false (or panicked) and the failure is panicked.
PassAuth(r) ==
    /\ Goto(r, "health")
    /\ marks' = [marks EXCEPT ![r] = @ \cup {"auth"}]

FailAuth(r, v) ==
    /\ Panic(r, v)
    /\ UNCHANGED marks

checkSecret(r) ==
    /\ pc[r] = "checkSecret"
    /\ IF ~conf.Secret
         THEN /\ PassAuth(r)
              /\ UNCHANGED authHdr
         ELSE \E h \in AuthHeaders :
              /\ authHdr' = [authHdr EXCEPT ![r] = h]
              /\ CASE authHeaderMust = "empty" ->
                        /\ Goto(r, "storeLen")
                        /\ UNCHANGED marks
                   [] authHeaderMust = "ready" ->
                        IF ConstantTimeCompare(h)
                          THEN PassAuth(r)
                          ELSE FailAuth(r, errInvalidSecret)
                   [] authHeaderMust = "torn" ->
                        IF h = "other_len"
                          THEN FailAuth(r, errInvalidSecret)
                          ELSE FailAuth(r, errRuntime)
    /\ UNCHANGED <<shared, requestLine, defers, resp, logs, lockCalls, unlockCalls, cancelCalls, timer>>

\* server.go 180, first half: the length and capacity words are stored.
storeLen(r) ==
    /\ pc[r] = "storeLen"
    /\ authHeaderMust' = IF authHeaderMust = "empty" THEN "torn" ELSE authHeaderMust
    /\ Goto(r, "storePtr")
    /\ UNCHANGED <<encoding, conf, sem, requestLine, authHdr, defers, resp, logs, lockCalls,
                   unlockCalls, cancelCalls, timer, marks>>

\* server.go 180 second half, 183 and 191-194: the pointer word is stored,
\* the writer returns the complete slice and compares.
storePtr(r) ==
    /\ pc[r] = "storePtr"
    /\ authHeaderMust' = "ready"
    /\ IF ConstantTimeCompare(authHdr[r])
         THEN PassAuth(r)
         ELSE FailAuth(r, errInvalidSecret)
    /\ UNCHANGED <<encoding, conf, sem, requestLine, authHdr, defers, resp, logs, lockCalls,
                   unlockCalls, cancelCalls, timer>>

\* Mutation of isHealthRequest: the target is compared with another path.
isHealthRequestOtherPath(r) == uri[r] = "/healthz"

\* server.go 241: r.URL.RequestURI() == healthPath
isHealthRequest(r) == uri[r] = healthPath

\* server.go 241-245: the health shortcut.
healthCheck(r) ==
    /\ pc[r] = "health"
    /\ IF isHealthRequest(r)
         THEN /\ resp' = [resp EXCEPT ![r] = writeResponse(r, 200, imgproxyIsRunningMsg)]
              /\ Return(r)
         ELSE /\ UNCHANGED resp
              /\ Goto(r, "lock")
    /\ UNCHANGED <<shared, requestLine, authHdr, defers, logs, lockCalls, unlockCalls, cancelCalls, timer, marks>>

\* ------------------------------------------------------ admission gate
\* Mutation of semHasRoom: the channel takes one token more than its capacity.
semHasRoomOffByOne == sem <= Concurrency

\* server.go 197-199: a send on the buffered channel blocks while it is full.
semHasRoom == sem < Concurrency

\* Mutation of semAfterUnlock: the deferred unlock takes no token out.
semAfterUnlockLeak == sem

\* server.go 201-203: a receive takes one token out of the channel.
semAfterUnlock == sem - 1

\* A request blocked in h.lock() (the channel is full) has been waiting for
\* longer than the write timeout.  The send of server.go 198 takes no
\* context, so nothing in the handler reacts to it.
waitTimesOut(r) ==
    /\ pc[r] = "lock"
    /\ ~semHasRoom
    /\ Goto(r, "lockOverdue")
    /\ UNCHANGED <<shared, requestLine, authHdr, defers, resp, logs, lockCalls, unlockCalls, cancelCalls,
                   timer, marks>>

\* Mutation of lock: a request that finds the channel full is turned away
\* instead of waiting.
lockOrReject(r) ==
    /\ pc[r] \in {"lock", "lockOverdue"}
    /\ IF semHasRoom
         THEN /\ sem' = sem + 1
              /\ lockCalls' = [lockCalls EXCEPT ![r] = @ + 1]
              /\ defers' = [defers EXCEPT ![r] = Append(@, "unlock")]
              /\ Goto(r, "startTimer")
         ELSE /\ Panic(r, errTimeout)
              /\ UNCHANGED <<sem, lockCalls, defers>>
    /\ UNCHANGED <<encoding, conf, authHeaderMust, requestLine, authHdr, resp, logs, unlockCalls,
                   cancelCalls, timer, marks>>

\* server.go 260-261: h.lock(); defer h.unlock()
lock(r) ==
    /\ pc[r] \in {"lock", "lockOverdue"}
    /\ semHasRoom
    /\ sem' = sem + 1
    /\ lockCalls' = [lockCalls EXCEPT ![r] = @ + 1]
    /\ defers' = [defers EXCEPT ![r] = Append(@, "unlock")]
    /\ Goto(r, "startTimer")
    /\ UNCHANGED <<encoding, conf, authHeaderMust, requestLine, authHdr, resp, logs, unlockCalls, cancelCalls, timer, marks>>

\* Mutation of startTimer: no deadline context is started.
startTimerSkipped(r) ==
    /\ pc[r] = "startTimer"
    /\ defers' = [defers EXCEPT ![r] = Append(@, "timeoutCancel")]
    /\ Goto(r, "parsePath")
    /\ UNCHANGED <<shared, requestLine, authHdr, resp, logs, lockCalls, unlockCalls, cancelCalls, marks,
                   timer>>

\* server.go 263-264: ctx, timeoutCancel := startTimer(...); defer timeoutCancel()
startTimer(r) ==
    /\ pc[r] = "startTimer"
    /\ timer' = [timer EXCEPT ![r] = "running"]
    /\ defers' = [defers EXCEPT ![r] = Append(@, "timeoutCancel")]
    /\ Goto(r, "parsePath")
    /\ UNCHANGED <<shared, requestLine, authHdr, resp, logs, lockCalls, unlockCalls, cancelCalls, marks>>

\* The write-timeout of a running deadline context elapses.
deadlineExpires(r) ==
    /\ timer[r] = "running"
    /\ timer' = [timer EXCEPT ![r] = "expired"]
    /\ UNCHANGED <<shared, pc, requestLine, authHdr, defers, panicValue, resp, logs,
                   lockCalls, unlockCalls, cancelCalls, marks>>

\* checkTimeout(ctx): panics with the Timeout error once ctx is done.
checkTimeout(r, next) ==
    IF timer[r] = "expired" THEN Panic(r, errTimeout) ELSE Goto(r, next)

\* ------------------------------------------------------------ pipeline
\* server.go 266-269: parsePath returns (ctx, err); err != nil is panicked.
\* The parser itself may also panic with a value that is not an error.
parsePath(r) ==
    /\ pc[r] = "parsePath"
    /\ \/ Goto(r, "download")
       \/ \E err \in StageFailures : Panic(r, err)
       \/ Panic(r, nonErrorValue)
    /\ UNCHANGED <<shared, requestLine, authHdr, defers, resp, logs, lockCalls, unlockCalls, cancelCalls,
                   timer, marks>>

\* Mutation of deferDownloadcancel: the cancel function is not deferred.
deferDownloadcancelDropped(stack) == stack

\* server.go 272: defer downloadcancel()
deferDownloadcancel(stack) == Append(stack, "downloadcancel")

\* server.go 271-281: downloadImage(ctx) returns, its cancel function is
\* deferred, and an error is panicked; or the call panics before anything
\* is deferred; or the call does not return by itself.
downloadImage(r) ==
    /\ pc[r] = "download"
    /\ \/ /\ defers' = [defers EXCEPT ![r] = deferDownloadcancel(@)]
          /\ marks' = [marks EXCEPT ![r] = @ \cup {"downloadReturned"}]
          /\ \/ Goto(r, "checkTimeout1")
             \/ \E err \in StageFailures : Panic(r, err)
       \/ /\ UNCHANGED defers
          /\ UNCHANGED marks
          /\ \/ Panic(r, nonErrorValue)
             \/ Goto(r, "downloading")
    /\ UNCHANGED <<shared, requestLine, authHdr, resp, logs, lockCalls, unlockCalls,
                   cancelCalls, timer>>

\* The downloader runs under the deadline context: a call that does not
\* return by itself is aborted when the deadline elapses and returns the
\* Timeout error (server.go 271-281 then defer and panic it).
downloadAborted(r) ==
    /\ pc[r] = "downloading"
    /\ timer[r] = "expired"
    /\ defers' = [defers EXCEPT ![r] = deferDownloadcancel(@)]
    /\ marks' = [marks EXCEPT ![r] = @ \cup {"downloadReturned", "downloadAborted"}]
    /\ Panic(r, errTimeout)
    /\ UNCHANGED <<shared, requestLine, authHdr, resp, logs, lockCalls, unlockCalls,
                   cancelCalls, timer>>

\* server.go 283
checkTimeout1(r) ==
    /\ pc[r] = "checkTimeout1"
    /\ checkTimeout(r, "etag")
    /\ UNCHANGED <<shared, requestLine, authHdr, defers, resp, logs, lockCalls, unlockCalls, cancelCalls,
                   timer, marks>>

\* Mutation of respondWithNotModified: the status logged is the one written.
respondWithNotModifiedAs200(r) ==
    /\ logs' = [logs EXCEPT ![r] = logResponse(r, 200)]
    /\ resp' = [resp EXCEPT ![r] = writeResponse(r, 200, "")]

\* server.go 173-176: respondWithNotModified logs 200 and writes 304.
respondWithNotModified(r) ==
    /\ logs' = [logs EXCEPT ![r] = logResponse(r, 200)]
    /\ resp' = [resp EXCEPT ![r] = writeResponse(r, 304, "")]

\* server.go 285-293: the ETag of the downloaded bytes and options against
\* the request's If-None-Match header.
etag(r) ==
    /\ pc[r] = "etag"
    /\ IF conf.ETagEnabled
         THEN \E inm \in {"equal", "differs"} :
              /\ ifNoneMatch' = [ifNoneMatch EXCEPT ![r] = inm]
              /\ IF inm = "equal"
                   THEN /\ respondWithNotModified(r)
                        /\ Return(r)
                   ELSE /\ UNCHANGED <<logs, resp>>
                        /\ Goto(r, "checkTimeout2")
         ELSE /\ UNCHANGED <<logs, resp, ifNoneMatch>>
              /\ Goto(r, "checkTimeout2")
    /\ UNCHANGED <<shared, method, uri, authHdr, defers, lockCalls, unlockCalls, cancelCalls, timer, marks>>

\* server.go 295
checkTimeout2(r) ==
    /\ pc[r] = "checkTimeout2"
    /\ checkTimeout(r, "process")
    /\ UNCHANGED <<shared, requestLine, authHdr, defers, resp, logs, lockCalls, unlockCalls, cancelCalls,
                   timer, marks>>

\* server.go 297-306: processImage returns (data, err); err != nil is
\* panicked.  The processor itself may panic with a non-error value.
processImage(r) ==
    /\ pc[r] = "process"
    /\ \/ Goto(r, "checkTimeout3")
       \/ \E err \in StageFailures : Panic(r, err)
       \/ Panic(r, nonErrorValue)
    /\ UNCHANGED <<shared, requestLine, authHdr, defers, resp, logs, lockCalls, unlockCalls, cancelCalls,
                   timer, marks>>

\* server.go 308
checkTimeout3(r) ==
    /\ pc[r] = "checkTimeout3"
    /\ checkTimeout(r, "respond")
    /\ UNCHANGED <<shared, requestLine, authHdr, defers, resp, logs, lockCalls, unlockCalls, cancelCalls,
                   timer, marks>>

\* server.go 310 with 131-159: respondWithImage writes 200 and the image,
\* then logs 200.
respondWithImage(r) ==
    /\ pc[r] = "respond"
    /\ resp' = [resp EXCEPT ![r] = writeResponse(r, 200, "image")]
    /\ logs' = [logs EXCEPT ![r] = logResponse(r, 200)]
    /\ Return(r)
    /\ UNCHANGED <<shared, requestLine, authHdr, defers, lockCalls, unlockCalls, cancelCalls, timer, marks>>

\* --------------------------------------------------- deferred functions
Range(s) == {s[i] : i \in 1..Len(s)}

\* How many times the function f is on the stack of deferred functions.
Count(f, s) == Cardinality({i \in 1..Len(s) : s[i] = f})

\* Mutation of runDeferred: the cancel functions run but the token is kept.
runDeferredWithoutUnlock(r) ==
    /\ pc[r] = "exit"
    /\ Len(defers[r]) > 1
    /\ LET fs == Range(Tail(defers[r])) IN
        /\ timer' = [timer EXCEPT ![r] = IF "timeoutCancel" \in fs THEN "cancelled" ELSE @]
        /\ cancelCalls' = [cancelCalls EXCEPT
                              ![r] = @ + Count("downloadcancel", Tail(defers[r]))]
    /\ defers' = [defers EXCEPT ![r] = <<Head(@)>>]
    /\ UNCHANGED <<encoding, conf, sem, unlockCalls, authHeaderMust, pc, requestLine, authHdr,
                   panicValue, resp, logs, lockCalls, marks>>

\* server.go 261, 264, 272: when the body is left (return or panic) the
\* deferred functions registered after the recover closure run, last
\* registered first: downloadcancel(), timeoutCancel(), h.unlock().  They
\* run back to back in the request's goroutine and only h.unlock touches
\* shared state, so they are one step; the recover closure stays on the stack.
runDeferred(r) ==
    /\ pc[r] = "exit"
    /\ Len(defers[r]) > 1
    /\ LET fs == Range(Tail(defers[r])) IN
        /\ timer' = [timer EXCEPT ![r] = IF "timeoutCancel" \in fs THEN "cancelled" ELSE @]
        /\ IF "unlock" \in fs
             THEN /\ sem > 0
                  /\ sem' = semAfterUnlock
                  /\ unlockCalls' = [unlockCalls EXCEPT ![r] = @ + 1]
             ELSE UNCHANGED <<sem, unlockCalls>>
        /\ cancelCalls' = [cancelCalls EXCEPT
                              ![r] = @ + Count("downloadcancel", Tail(defers[r]))]
    /\ defers' = [defers EXCEPT ![r] = <<Head(@)>>]
    /\ UNCHANGED <<encoding, conf, authHeaderMust, pc, requestLine, authHdr, panicValue, resp, logs,
                   lockCalls, marks>>

\* Mutation of recoveredError: every recovered error is wrapped as unexpected.
recoveredErrorAlwaysWrapped(err) == newUnexpectedError(err)

\* server.go 213-217: the error the recovery point answers with.
recoveredError(err) ==
    IF err.kind = "imgproxyError" THEN err ELSE newUnexpectedError(err)

\* Mutation of errorBody: the internal message is written to the client.
errorBodyInternal(err) == err.Message

\* server.go 165: the body respondWithError writes.
errorBody(err) == err.PublicMessage

\* Mutation of isError: only *imgproxyError values are answered, any other
\* error is panicked again.
isErrorTypedOnly(v) == v.kind = "imgproxyError"

\* Mutation of isError: every recovered value is answered as an error.
isErrorAnyValue(v) == TRUE

\* server.go 210: rerr.(error)
isError(v) == v.kind \in {"imgproxyError", "error"}

\* server.go 208-222 with 161-166: the deferred recover.  An error value is
\* answered through respondWithError; any other value is panicked again.
recover(r) ==
    /\ pc[r] = "exit"
    /\ defers[r] = <<"recover">>
    /\ defers' = [defers EXCEPT ![r] = <<>>]
    /\ IF panicValue[r] = NoPanic
         THEN /\ pc' = [pc EXCEPT ![r] = "done"]
              /\ UNCHANGED <<resp, logs>>
         ELSE IF isError(panicValue[r])
           THEN LET ierr == recoveredError(panicValue[r]) IN
                /\ logs' = [logs EXCEPT ![r] = logResponse(r, ierr.StatusCode)]
                /\ resp' = [resp EXCEPT ![r] =
                               writeResponse(r, ierr.StatusCode, errorBody(ierr))]
                /\ pc' = [pc EXCEPT ![r] = "done"]
           ELSE /\ pc' = [pc EXCEPT ![r] = "crashed"]
                /\ UNCHANGED <<resp, logs>>
    /\ UNCHANGED <<shared, requestLine, authHdr, panicValue, lockCalls, unlockCalls, cancelCalls, timer,
                   marks>>

\* ------------------------------------------------------- specification
Next ==
    \E r \in Requests :
        \/ ServeHTTP(r)
        \/ checkSecret(r)
        \/ storeLen(r)
        \/ storePtr(r)
        \/ healthCheck(r)
        \/ waitTimesOut(r)
        \/ lock(r)
        \/ startTimer(r)
        \/ deadlineExpires(r)
        \/ parsePath(r)
        \/ downloadImage(r)
        \/ downloadAborted(r)
        \/ checkTimeout1(r)
        \/ etag(r)
        \/ checkTimeout2(r)
        \/ processImage(r)
        \/ checkTimeout3(r)
        \/ respondWithImage(r)
        \/ runDeferred(r)
        \/ recover(r)

Spec == Init /\ [][Next]_vars

\* Every goroutine that can take a step is eventually scheduled, and a
\* running timer eventually fires.
Step(r) ==
    \/ checkSecret(r) \/ storeLen(r) \/ storePtr(r) \/ healthCheck(r) \/ lock(r)
    \/ startTimer(r) \/ parsePath(r) \/ downloadImage(r) \/ downloadAborted(r)
    \/ checkTimeout1(r) \/ etag(r) \/ checkTimeout2(r) \/ processImage(r)
    \/ checkTimeout3(r) \/ respondWithImage(r) \/ runDeferred(r) \/ recover(r)

FairSpec ==
    /\ Spec
    /\ \A r \in Requests : WF_vars(Step(r)) /\ WF_vars(deadlineExpires(r))

\* server.go 77-82: the server keeps serving: the goroutine of a finished
\* request is gone and ServeHTTP is called again for a new request.
nextRequest(r) ==
    /\ pc[r] \in {"done", "crashed"}
    /\ pc' = [pc EXCEPT ![r] = "idle"]
    /\ method' = [method EXCEPT ![r] = "none"]
    /\ uri' = [uri EXCEPT ![r] = "none"]
    /\ authHdr' = [authHdr EXCEPT ![r] = "unread"]
    /\ defers' = [defers EXCEPT ![r] = <<>>]
    /\ panicValue' = [panicValue EXCEPT ![r] = NoPanic]
    /\ resp' = [resp EXCEPT ![r] = <<>>]
    /\ logs' = [logs EXCEPT ![r] = <<>>]
    /\ lockCalls' = [lockCalls EXCEPT ![r] = 0]
    /\ unlockCalls' = [unlockCalls EXCEPT ![r] = 0]
    /\ cancelCalls' = [cancelCalls EXCEPT ![r] = 0]
    /\ timer' = [timer EXCEPT ![r] = "none"]
    /\ ifNoneMatch' = [ifNoneMatch EXCEPT ![r] = "unread"]
    /\ marks' = [marks EXCEPT ![r] = {}]
    /\ UNCHANGED shared

ServeNext ==
    \/ Next
    \/ \E r \in Requests : nextRequest(r)

\* The server under an unending stream of requests.  A goroutine blocked
\* in the send of lock() is queued on the channel and is handed the slot
\* of a later receive, so a waiting request is not passed over for ever.
ServeSpec ==
    /\ Init /\ [][ServeNext]_vars
    /\ \A r \in Requests :
          WF_vars(Step(r)) /\ WF_vars(deadlineExpires(r)) /\ SF_vars(lock(r))

\* ------------------------------------------------- response buffer pool
\* server.go 139-151, the gzip branch of respondWithImage, for calls that
\* overlap.  What a request did before line 310 plays no part in it, so
\* the branch is examined on its own: the rest of the handler stands still.
handler == <<conf, sem, authHeaderMust, pc, method, uri, authHdr, defers, panicValue,
             resp, logs, lockCalls, unlockCalls, cancelCalls, timer, ifNoneMatch, marks>>

\* Buffers that exist: in the pool or held by a call.
allocated == pool \cup UNION {buf[e] : e \in Encoders}

\* server.go 52-56: New returns a buffer nobody has (the first unused one).
responseBufPoolNew ==
    CHOOSE b \in Buffers \ allocated : \A x \in Buffers \ allocated : b <= x

\* Mutation of bufReset: the buffer keeps what was in it.
bufResetSkipped(c) == c

\* server.go 143: buf.Reset()
bufReset(c) == {}

\* server.go 141: the deferred responseBufPool.Put(buf), run when
\* respondWithImage is left.
responseBufPoolPut(e) ==
    /\ pool' = pool \cup buf[e]
    /\ puts' = [puts EXCEPT ![e] = @ + 1]
    /\ buf' = [buf EXCEPT ![e] = {}]

\* server.go 140-141: buf := responseBufPool.Get(); defer Put(buf).  Get
\* takes a buffer out of the pool, or calls New (also when the pool is not
\* empty: sync.Pool may have dropped or not find a pooled buffer).
responseBufPoolGet(e) ==
    /\ encPc[e] = "start"
    /\ \E b \in pool \cup {responseBufPoolNew} :
        /\ pool' = pool \ {b}
        /\ buf' = [buf EXCEPT ![e] = {b}]
    /\ encPc' = [encPc EXCEPT ![e] = "compress"]
    /\ UNCHANGED <<handler, content, sent, puts>>

\* server.go 143-145: buf.Reset(); gzipData(data, buf).  The compressed
\* bytes of this call are appended to the buffer; gzipData may also panic
\* half way, which leaves respondWithImage through the deferred Put.
gzipData(e) ==
    /\ encPc[e] = "compress"
    /\ content' = [b \in Buffers |->
                     IF b \in buf[e] THEN bufReset(content[b]) \cup {e} ELSE content[b]]
    /\ \/ /\ encPc' = [encPc EXCEPT ![e] = "send"]
          /\ UNCHANGED <<pool, puts, buf>>
       \/ /\ encPc' = [encPc EXCEPT ![e] = "failed"]
          /\ responseBufPoolPut(e)
    /\ UNCHANGED <<handler, sent>>

\* server.go 147-151 and the deferred Put: the status line is written and
\* buf.WriteTo(rw) sends what is in the buffer.  A complete write drains
\* the buffer; a write that fails (the client is gone) leaves the rest in.
writeGzipped(e) ==
    /\ encPc[e] = "send"
    /\ sent' = [sent EXCEPT ![e] = UNION {content[b] : b \in buf[e]}]
    /\ \/ content' = [b \in Buffers |-> IF b \in buf[e] THEN {} ELSE content[b]]
       \/ UNCHANGED content
    /\ encPc' = [encPc EXCEPT ![e] = "done"]
    /\ responseBufPoolPut(e)
    /\ UNCHANGED handler

PoolNext ==
    \E e \in Encoders :
        \/ responseBufPoolGet(e)
        \/ gzipData(e)
        \/ writeGzipped(e)

PoolSpec == Init /\ [][PoolNext]_vars

\* ================================================================ claims
Finished(r) == pc[r] \in {"done", "crashed"}
Inside(r) == pc[r] \notin {"idle", "done", "crashed"}
Holders == {r \in Requests : Holding(r)}
Statuses(r) == {resp[r][i].status : i \in 1..Len(resp[r])}

\* C1: in every reachable state the number of requests that have returned
\* from lock() and not yet executed unlock() is at most conf.Concurrency.
C1_HoldersWithinCapacity ==
    /\ Cardinality(Holders) <= Concurrency
    /\ sem <= Concurrency

\* C1 witness: the pool is full and another request is blocked in lock().
C1_Witness ==
    /\ Cardinality(Holders) = Concurrency
    /\ \E r \in Requests : pc[r] = "lock" /\ ~Holding(r)

\* C2 as stated: every request that ended wrote exactly one response.
C2_Original ==
    \A r \in Requests : Finished(r) => Len(resp[r]) = 1

\* C2 amended: no request writes two responses; a request that returns
\* from ServeHTTP wrote exactly one; a request whose ServeHTTP is left by
\* the re-raised panic of a value that is not an error wrote none, and
\* that is the only way to end without a response.
C2_OneResponseUnlessReraised ==
    \A r \in Requests :
        /\ Len(resp[r]) <= 1
        /\ pc[r] = "done" => Len(resp[r]) = 1
        /\ pc[r] = "crashed" => Len(resp[r]) = 0 /\ panicValue[r].kind = "nonerror"

\* C2 witness: one request answered an error from the recovery point,
\* another left ServeHTTP by the re-raised panic.
C2_Witness ==
    \E r, q \in Requests :
        /\ pc[r] = "done" /\ panicValue[r].kind = "error" /\ Len(resp[r]) = 1
        /\ pc[q] = "crashed" /\ Len(resp[q]) = 0

\* C3: a request holds at most one token, a request that acquired one has
\* released it exactly once when its handler has finished (whatever the
\* exit path), the channel holds one token per holder, and with no
\* request inside the handler the pool is empty.
C3_TokenReleasedOnEveryExit ==
    /\ \A r \in Requests :
        /\ lockCalls[r] <= 1
        /\ unlockCalls[r] <= lockCalls[r]
        /\ Finished(r) => unlockCalls[r] = lockCalls[r]
    /\ sem = Cardinality(Holders)
    /\ (\A r \in Requests : ~Inside(r)) => sem = 0

\* C3 witness: every request has finished, one by the re-raised panic and
\* one with a Timeout answer, both after acquiring and releasing a token.
C3_Witness ==
    /\ \A r \in Requests : Finished(r)
    /\ \E r, q \in Requests :
        /\ pc[r] = "crashed" /\ lockCalls[r] = 1 /\ unlockCalls[r] = 1
        /\ pc[q] = "done" /\ panicValue[q] = errTimeout
        /\ lockCalls[q] = 1 /\ unlockCalls[q] = 1

\* C4: a request whose method is neither GET nor OPTIONS is answered 422
\* with the public message of errInvalidMethod, never calls lock() and
\* never holds a token.
C4_InvalidMethod ==
    \A r \in Requests :
        (method[r] \notin {"none", MethodGet, MethodOptions}) =>
            /\ lockCalls[r] = 0 /\ unlockCalls[r] = 0
            /\ pc[r] \in {"exit", "done"}
            /\ marks[r] = {} /\ timer[r] = "none"
            /\ pc[r] = "done" =>
                 resp[r] = <<[status |-> 422, body |-> "Method doesn't allowed",
                              held |-> FALSE]>>

\* C4 witness: a POST was answered while the pool was full.
C4_Witness ==
    \E r \in Requests :
        /\ method[r] = MethodPost /\ pc[r] = "done" /\ Len(resp[r]) = 1
        /\ sem = Concurrency

\* C5 as stated: with a secret configured, a request whose Authorization
\* header differs from "Bearer <secret>" is answered 403, and a request
\* whose header equals it gets past the auth gate.
C5_Original ==
    \A r \in Requests :
        /\ (conf.Secret /\ authHdr[r] \in {"same_len", "other_len"} /\ pc[r] = "done")
              => Statuses(r) = {403}
        /\ (conf.Secret /\ authHdr[r] = "equal" /\ pc[r] \notin {"checkSecret", "storeLen", "storePtr"})
              => "auth" \in marks[r]

\* C6 as stated: a GET request for /health always receives 200 with the
\* fixed body and never calls lock().
C6_Original ==
    \A r \in Requests :
        (method[r] = MethodGet /\ uri[r] = healthPath) =>
            /\ lockCalls[r] = 0
            /\ Finished(r) =>
                 resp[r] = <<[status |-> 200, body |-> imgproxyIsRunningMsg, held |-> FALSE]>>

\* C6 amended: a GET request for /health that got past the auth gate
\* receives 200 with the fixed body, whatever the occupancy of the pool:
\* it never reaches lock() or any later stage and starts no
\* deadline; one that did not get past the gate is answered by the gate
\* (403, or 500 from the failed comparison), also without lock().
C6_HealthAfterAuthGate ==
    \A r \in Requests :
        (method[r] = MethodGet /\ uri[r] = healthPath) =>
            /\ lockCalls[r] = 0
            /\ pc[r] \in {"checkSecret", "storeLen", "storePtr", "health", "exit", "done"}
            /\ marks[r] \subseteq {"auth"}
            /\ timer[r] = "none"
            /\ pc[r] = "done" =>
                 IF "auth" \in marks[r]
                   THEN resp[r] = <<[status |-> 200, body |-> imgproxyIsRunningMsg,
                                     held |-> FALSE]>>
                   ELSE conf.Secret /\ Statuses(r) \subseteq {403, 500}

\* C6 witness: a health request was answered 200 while every token of the
\* pool was held by other requests.
C6_Witness ==
    \E r \in Requests :
        /\ method[r] = MethodGet /\ uri[r] = healthPath /\ pc[r] = "done"
        /\ Statuses(r) = {200}
        /\ sem = Concurrency
        /\ Cardinality(Holders \ {r}) = Concurrency

\* C7: an error value raised by a stage is answered once by the recovery
\* point: an *imgproxyError with its own status and public message, any
\* other error with 500 and the generic public message; the body is the
\* public message and never an internal message.
C7_ErrorsAnswered ==
    \A r \in Requests :
        (pc[r] = "done" /\ panicValue[r] # NoPanic) =>
            /\ Len(resp[r]) = 1
            /\ IF panicValue[r].kind = "imgproxyError"
                 THEN /\ resp[r][1].status = panicValue[r].StatusCode
                      /\ resp[r][1].body = panicValue[r].PublicMessage
                 ELSE /\ resp[r][1].status = 500
                      /\ resp[r][1].body = "Internal error"
            /\ resp[r][1].body # panicValue[r].Message
            /\ resp[r][1].body # newUnexpectedError(panicValue[r]).Message

\* C7 witness: a typed stage error and an untyped one were both answered.
C7_Witness ==
    \E r, q \in Requests :
        /\ pc[r] = "done" /\ panicValue[r] = errStage /\ Statuses(r) = {404}
        /\ pc[q] = "done" /\ panicValue[q] = errCollaborator /\ Statuses(q) = {500}

\* C8: a panic value that is not an error is never answered: the request
\* writes no response, its ServeHTTP is left by the re-raised panic, and
\* by then the deferred unlock and timeoutCancel have run.
C8_NonErrorReraised ==
    \A r \in Requests :
        panicValue[r].kind = "nonerror" =>
            /\ resp[r] = <<>> /\ logs[r] = <<>>
            /\ pc[r] \in {"exit", "crashed"}
            /\ pc[r] = "crashed" =>
                 /\ lockCalls[r] = 1 /\ unlockCalls[r] = 1
                 /\ timer[r] = "cancelled"
                 /\ defers[r] = <<>>

\* C8 witness: a request left ServeHTTP by the re-raised panic after the
\* downloader panicked with a non-error value.
C8_Witness ==
    \E r \in Requests :
        /\ pc[r] = "crashed" /\ panicValue[r] = nonErrorValue
        /\ lockCalls[r] = 1 /\ ~Holding(r) /\ resp[r] = <<>>

\* C9: with ETag support enabled and If-None-Match equal to the computed
\* ETag, the request is answered 304 without a body while it holds its
\* token, and it leaves the ETag step by returning; 304 is written in no
\* other case; processImage is reached only by a request whose ETag step
\* found no match (or with ETag support disabled), and such a request
\* leaves the ETag step towards processing without a response.
RespondedNotModified(r) == conf.ETagEnabled /\ ifNoneMatch[r] = "equal"

C9_NotModified ==
    /\ [](\A r \in Requests :
            /\ RespondedNotModified(r) =>
                 /\ resp[r] = <<[status |-> 304, body |-> "", held |-> TRUE]>>
                 /\ pc[r] \in {"exit", "done"}
            /\ 304 \in Statuses(r) => RespondedNotModified(r)
            /\ pc[r] \in {"checkTimeout2", "process", "checkTimeout3", "respond"} =>
                 /\ resp[r] = <<>>
                 /\ ifNoneMatch[r] = IF conf.ETagEnabled THEN "differs" ELSE "unread")
    /\ [][\A r \in Requests :
            (pc[r] = "etag" /\ pc'[r] # "etag") =>
                IF RespondedNotModified(r)'
                  THEN pc'[r] = "exit" /\ panicValue'[r] = NoPanic
                  ELSE pc'[r] = "checkTimeout2" /\ resp'[r] = <<>>]_vars

\* C9 witness: a request was answered 304 and has finished.
C9_Witness ==
    \E r \in Requests :
        /\ pc[r] = "done" /\ RespondedNotModified(r)
        /\ Statuses(r) = {304} /\ lockCalls[r] = 1 /\ ~Holding(r)

C11_Original ==
    [][\A r \in Requests :
          \A stage \in {"download", "process", "respond"} :
              (pc[r] # stage /\ pc'[r] = stage) => timer[r] # "expired"]_vars

\* C12: a deadline is started exactly once per admitted request, by the
\* step after lock() returned and before parsePath, while the request
\* holds its token; no request has one before (waiting in lock() is not
\* counted) and a request that ends before admission never has one; a
\* started deadline only elapses or is cancelled at exit, it is never
\* started again, extended or replaced.
BeforeDeadline == {"idle", "checkSecret", "storeLen", "storePtr", "health", "lock",
                   "lockOverdue", "startTimer"}

UnderDeadline == {"parsePath", "download", "downloading", "checkTimeout1", "etag",
                  "checkTimeout2", "process", "checkTimeout3", "respond"}

C12_SingleDeadline ==
    /\ [](\A r \in Requests :
            /\ timer[r] # "none" => lockCalls[r] = 1
            /\ pc[r] \in BeforeDeadline => timer[r] = "none"
            /\ pc[r] \in UnderDeadline => timer[r] \in {"running", "expired"} /\ Holding(r)
            /\ Finished(r) => timer[r] = IF lockCalls[r] = 1 THEN "cancelled" ELSE "none")
    /\ [][\A r \in Requests :
            timer'[r] # timer[r] =>
                \/ /\ timer[r] = "none" /\ timer'[r] = "running"
                   /\ pc[r] = "startTimer" /\ pc'[r] = "parsePath" /\ Holding(r)
                \/ timer[r] = "running" /\ timer'[r] = "expired"
                \/ /\ timer[r] \in {"running", "expired"} /\ timer'[r] = "cancelled"
                   /\ pc[r] = "exit"]_vars

\* C12 witness: one request holds the token with its deadline elapsed,
\* another has waited in lock() for longer than the write timeout and has
\* no deadline yet; a third way to end, before admission, left no deadline.
C12_Witness ==
    \E r, q \in Requests :
        /\ Holding(r) /\ timer[r] = "expired"
        /\ pc[q] = "lockOverdue" /\ timer[q] = "none"

\* C13 as stated: however the downloadImage call of a request ends, one
\* downloadcancel() is pending for the exit of the request from then on
\* (and it is invoked exactly once when the request has finished).
C13_Original ==
    /\ [][\A r \in Requests :
            (pc[r] \in {"download", "downloading"} /\ pc'[r] \notin {"download", "downloading"})
                => Count("downloadcancel", defers'[r]) = 1]_vars
    /\ [](\A r \in Requests : cancelCalls[r] <= 1)

\* C13 amended: downloadcancel() is invoked exactly once for every request
\* whose downloadImage call returned (with or without an error, the
\* Timeout error of an aborted download included), on whatever exit path
\* follows, and only when the body is left; it is never invoked for a
\* request whose call did not return: one that ended before the call, or
\* one whose call panicked, which hands out no cancel function.
C13_CancelOncePerReturnedDownload ==
    \A r \in Requests :
        /\ cancelCalls[r] <= 1
        /\ "downloadReturned" \notin marks[r] => cancelCalls[r] = 0
        /\ cancelCalls[r] = 1 => pc[r] \in {"exit", "done", "crashed"}
        /\ (Finished(r) /\ "downloadReturned" \in marks[r]) => cancelCalls[r] = 1
        /\ (pc[r] = "exit" /\ defers[r] = <<"recover">> /\ "downloadReturned" \in marks[r])
              => cancelCalls[r] = 1

\* C13 witness: one request ended with a download error and one by the
\* re-raised panic of the processor, both after downloadcancel().
C13_Witness ==
    \E r, q \in Requests :
        /\ pc[r] = "done" /\ panicValue[r] = errStage /\ cancelCalls[r] = 1
        /\ "downloadReturned" \in marks[r] /\ ifNoneMatch[r] = "unread"
        /\ pc[q] = "crashed" /\ cancelCalls[q] = 1

\* C14 as stated: authHeaderMust is assigned at most once: at most one
\* request ever is past the len(authHeaderMust) == 0 test of
\* prepareAuthHeaderMust with its assignment (server.go 180) not yet
\* complete, and none is once the buffer has been assigned.
C14_Original ==
    \A r \in Requests :
        pc[r] \in {"storeLen", "storePtr"} =>
            /\ authHeaderMust # "ready"
            /\ \A q \in Requests \ {r} : pc[q] \notin {"storeLen", "storePtr"}

\* C15 as stated: a request whose time budget has run out while it is
\* blocked in lock() leaves lock() by returning with the Timeout error,
\* without a token, and not by waiting until another request releases one.
C15_Original ==
    [][\A r \in Requests :
          (pc[r] = "lockOverdue" /\ pc'[r] # "lockOverdue") =>
              /\ pc'[r] = "exit" /\ panicValue'[r] = errTimeout
              /\ lockCalls'[r] = lockCalls[r]]_vars

\* C16: within one request the stages run in the order of ServeHTTP and a
\* stage is entered only from the successful end of the one before it:
\* downloadImage with the token held, the deadline started and parsePath
\* returned without error; processImage after downloadImage returned
\* without error and no ETag match answered the request; the image
\* response after processImage returned without error; and once a stage
\* has failed (a panic value is set) the request is at its exit and
\* enters no stage again.
Successors(l) ==
    CASE l = "idle" -> {"checkSecret", "exit"}
      [] l = "checkSecret" -> {"storeLen", "health", "exit"}
      [] l = "storeLen" -> {"storePtr"}
      [] l = "storePtr" -> {"health", "exit"}
      [] l = "health" -> {"lock", "exit"}
      [] l = "lock" -> {"lockOverdue", "startTimer"}
      [] l = "lockOverdue" -> {"startTimer"}
      [] l = "startTimer" -> {"parsePath"}
      [] l = "parsePath" -> {"download", "exit"}
      [] l = "download" -> {"downloading", "checkTimeout1", "exit"}
      [] l = "downloading" -> {"exit"}
      [] l = "checkTimeout1" -> {"etag", "exit"}
      [] l = "etag" -> {"checkTimeout2", "exit"}
      [] l = "checkTimeout2" -> {"process", "exit"}
      [] l = "process" -> {"checkTimeout3", "exit"}
      [] l = "checkTimeout3" -> {"respond", "exit"}
      [] l = "respond" -> {"exit"}
      [] l = "exit" -> {"done", "crashed"}
      [] OTHER -> {}

C16_StagesInSequence ==
    /\ [](\A r \in Requests :
            /\ panicValue[r] # NoPanic => pc[r] \in {"exit", "done", "crashed"}
            /\ pc[r] \in {"parsePath", "download", "downloading"} =>
                 /\ Holding(r) /\ timer[r] \in {"running", "expired"}
                 /\ "downloadReturned" \notin marks[r] /\ resp[r] = <<>>
            /\ pc[r] \in {"checkTimeout2", "process", "checkTimeout3", "respond"} =>
                 /\ Holding(r) /\ "downloadReturned" \in marks[r]
                 /\ "downloadAborted" \notin marks[r]
                 /\ ~RespondedNotModified(r) /\ resp[r] = <<>>)
    /\ [][\A r \in Requests :
            /\ pc'[r] # pc[r] => pc'[r] \in Successors(pc[r])
            /\ (pc'[r] # pc[r] /\ pc'[r] \notin {"exit", "done", "crashed"})
                  => panicValue'[r] = NoPanic
            /\ (resp'[r] # resp[r] /\ resp'[r][Len(resp'[r])].body = "image")
                  => pc[r] = "respond" /\ panicValue[r] = NoPanic]_vars

\* C16 witness: one request went through every stage and was answered
\* with the image, another failed in parsePath and was answered without a
\* download call having returned.
C16_Witness ==
    \E r, q \in Requests :
        /\ pc[r] = "done" /\ Len(resp[r]) = 1 /\ resp[r][1].body = "image"
        /\ cancelCalls[r] = 1
        /\ pc[q] = "done" /\ panicValue[q] = errStage /\ lockCalls[q] = 1
        /\ "downloadReturned" \notin marks[q] /\ cancelCalls[q] = 0

\* C17: a request that finds the pool full waits in lock(), it is not
\* answered or failed there, and while the requests holding tokens keep
\* releasing them it is eventually granted one, also when other requests
\* keep arriving and taking tokens.
C17_EventualAdmission ==
    /\ [](\A r \in Requests :
            pc[r] \in {"lock", "lockOverdue"} =>
                resp[r] = <<>> /\ panicValue[r] = NoPanic /\ ~Holding(r))
    /\ \A r \in Requests :
          (pc[r] \in {"lock", "lockOverdue"}) ~> Holding(r)

\* C17 witness: a request has waited at the full pool for longer than the
\* write timeout, the token has been released, and a request that arrived
\* later is at lock() too: both are after the one free token.
C17_Witness ==
    \E r, q \in Requests :
        /\ pc[q] = "lockOverdue" /\ pc[r] = "lock"
        /\ sem < Concurrency

\* C18: a buffer taken from responseBufPool is held by one call at a time
\* and is not in the pool while held; it is reset before the call writes
\* into it, so when the body is sent the buffer holds the bytes of this
\* call only and the body never has bytes of another request; and it is
\* put back exactly once on every way out of the gzip branch, a failed
\* compression or write included.
C18_BufferPoolDiscipline ==
    \A e \in Encoders :
        /\ Cardinality(buf[e]) <= 1
        /\ buf[e] \cap pool = {}
        /\ \A f \in Encoders \ {e} : buf[e] \cap buf[f] = {}
        /\ encPc[e] \in {"compress", "send"} => Cardinality(buf[e]) = 1 /\ puts[e] = 0
        /\ encPc[e] = "send" => \A b \in buf[e] : content[b] = {e}
        /\ sent[e] \subseteq {e}
        /\ encPc[e] = "done" => sent[e] = {e}
        /\ encPc[e] \in {"done", "failed"} => puts[e] = 1 /\ buf[e] = {}
        /\ encPc[e] = "start" => puts[e] = 0 /\ buf[e] = {}

\* C18 witness: one call failed and put its buffer back with bytes in it,
\* a later call took that same buffer, sent its own body and drained it.
C18_Witness ==
    \E e, f \in Encoders :
        /\ encPc[f] = "failed" /\ puts[f] = 1
        /\ encPc[e] = "done" /\ sent[e] = {e} /\ puts[e] = 1
        /\ Cardinality(pool) = 1 /\ \A b \in pool : content[b] = {}

\* C19 as stated: every response a request writes is logged through
\* logResponse with the status written: the statuses logged for a
\* request are the statuses of its responses, one for one.
C19_Original ==
    \A r \in Requests :
        /\ Len(logs[r]) = Len(resp[r])
        /\ \A i \in 1..Len(resp[r]) : i <= Len(logs[r]) => logs[r][i] = resp[r][i].status

\* C20: an admitted request writes a success response (the image, or 304)
\* from the body of ServeHTTP while it holds its token and its deadline
\* is not yet cancelled; it writes an error response from the recovery
\* point, after unlock(), timeoutCancel() and (if the download call
\* returned) downloadcancel() have run, so without the token.
C20_ResponseAgainstRelease ==
    [][\A r \in Requests :
          (Len(resp'[r]) > Len(resp[r]) /\ lockCalls[r] = 1) =>
              LET w == resp'[r][Len(resp'[r])] IN
              IF panicValue[r] = NoPanic
                THEN /\ w.status \in {200, 304} /\ w.held
                     /\ Holding(r) /\ Holding(r)'
                     /\ pc[r] \in {"etag", "respond"}
                     /\ timer[r] \in {"running", "expired"}
                     /\ cancelCalls[r] = 0
                ELSE /\ w.status = recoveredError(panicValue[r]).StatusCode
                     /\ ~w.held /\ ~Holding(r)
                     /\ unlockCalls[r] = 1
                     /\ timer[r] = "cancelled"
                     /\ "downloadReturned" \in marks[r] => cancelCalls[r] = 1
                     /\ pc[r] = "exit" /\ defers[r] = <<"recover">>]_vars

\* C20 witness: one request was answered with the image while it held the
\* token, another with Timeout after it had released it.
C20_Witness ==
    \E r, q \in Requests :
        /\ pc[r] = "done"
        /\ resp[r] = <<[status |-> 200, body |-> "image", held |-> TRUE]>>
        /\ pc[q] = "done" /\ panicValue[q] = errTimeout /\ lockCalls[q] = 1
        /\ Len(resp[q]) = 1 /\ ~resp[q][1].held /\ cancelCalls[q] = 1

====
